---- MODULE Spec2Model ----
(***************************************************************************)
(* State-machine model of asvz_bot.py: one run of main() for one target,   *)
(* i.e. target resolution (AsvzEnroller.from_lesson_attributes), the       *)
(* credential-check phase, wait_until and the enrollment phase of          *)
(* AsvzEnroller.enroll.  Time is counted in whole seconds.  The portal,    *)
(* the browser and the clock are the environment: what they return is      *)
(* chosen nondeterministically at the step that reads them.                *)
(***************************************************************************)
EXTENDS Integers, Sequences, FiniteSets, TLC

(* ------------------------------ bounds -------------------------------- *)
\* poll/claim cycles (iterations of `while not enrolled`) a run may start
MaxCycles == 3
\* capacity samples one call of __wait_for_free_places may take
MaxSamples == 4
\* seconds that may pass before each of the two clock reads that decide the
\* suspension (line 398 and line 344); elsewhere only sleeps and timeouts count
MaxElapsed == 2
\* invocations of main() for the same target
MaxRuns == 2

(* ------------------------- program constants -------------------------- *)
login_before_enrollment_seconds == 59
retry_interval_sec == 30
ClaimTimeout == 300
SettleDelay == 5
RedirectDelay == 3
\* datetime.timedelta keeps days apart from seconds: .seconds is in 0..86399
SecondsPerDay == 24 * 60 * 60

ASVZ_ORGANISATION_NAME == "ASVZ"
SWITCH_EDUID_ORGANISATION_NAME == "SWITCH edu-ID"
UZH_ORGANISATION_NAME == "Universität Zürich"
ETH_ORGANISATION_NAME == "ETH Zürich"
ORGANISATIONS ==
    {ASVZ_ORGANISATION_NAME, SWITCH_EDUID_ORGANISATION_NAME, UZH_ORGANISATION_NAME,
     ETH_ORGANISATION_NAME}

\* levels of the logging module: line 894 logs at DEBUG, line 120 sets INFO
DEBUG == 10
INFO == 20

(* ----------------------- environment value sets ----------------------- *)
\* passwords: two of one length and a longer one
Passwords == {<<"a", "b">>, <<"c", "d">>, <<"e", "f", "g">>}
\* creds[CREDENTIALS_UNAME]
Username == "user"
Elapsed == {0, MaxElapsed}
\* enrollment opening relative to the start of the run, as shown by the portal
EnrollOffsets == {-100, 4, 30, 100, SecondsPerDay + 30, SecondsPerDay + 100}
\* session start relative to the enrollment opening
LessonOffsets == {-60, 60, SecondsPerDay}
\* values of the 'Freie Plätze' indicator
Capacities == {0, 3}
\* a session one week later than the requested one (holiday shift)
WeekShift == 7 * SecondsPerDay

NoHandle == 0
Unbound == -1

VARIABLES
    labels,           \* interval labels on the lesson page that was read
    password,         \* creds[CREDENTIALS_PW], as characters
    log,              \* emitted log records that carry credentials or arguments
    enrollment_interval_raw, \* enrollment interval text, while it is being read
    lesson_interval_raw,     \* session interval text, while it is being read
    loginCalls,       \* calls of __organisation_login
    loginSteps,       \* the steps the last call of __organisation_login performed
    flows,            \* the login flows entered so far, in order
    lastLogin,        \* how the last login ended: "none", "valid", "suspect", "failed"
    enrollment_number,  \* the number the verifier read, or "none"
    participation_text, \* participation_text of the verifier, as words
    pc,               \* position of the single control flow
    now,              \* the wall clock, seconds
    runs,             \* invocations of main() so far
    runLog,           \* outcome records of the finished earlier invocations
    org,              \* creds[CREDENTIALS_ORG]
    targetKind,       \* "direct" (lesson/event id) or "filters" (training)
    requested,        \* expected_lesson_start of from_lesson_attributes
    pageEnroll,       \* enrollment opening shown by the portal
    pageLesson,       \* session start shown by the portal
    compared,         \* from_lesson_attributes compared lesson_start with requested
    enrollment_start, \* self.enrollment_start
    lesson_start,     \* self.lesson_start
    driver,           \* the local variable `driver` of the running method
    live,             \* handles (browser sessions) acquired and not yet quit
    acquired,         \* handles acquired so far in this run
    staleQuits,       \* driver.quit() calls on a handle that was already quit
    releaseFailed,    \* the finally clause itself raised
    exc,              \* exception in flight inside the current try block
    outcome,          \* "running", "Done" or "Failed"
    failure,          \* category of the failure that ended the run
    exitStatus,       \* process exit status, -1 while running
    phase,            \* "none", "resolve", "check", "wait", "enroll"
    enrolled,         \* the local flag of the retry loop
    logins,           \* completed logins per phase
    ops,              \* operations of the enrollment phase, in order
    cycles,           \* loop iterations started
    attempts,         \* claim attempts started
    lostRaces,        \* claim attempts that timed out
    clicks,           \* clicks of the claim control
    pollLog,          \* samples of the current call of __wait_for_free_places
    pollSleeps,       \* 30 s sleeps of the current call
    pollRefreshes,    \* page refreshes of the current call
    pollStart,        \* clock value when the current call began
    waitCalls,        \* calls of wait_until
    waitRead,         \* current_time read by wait_until
    sleep_time,       \* seconds wait_until slept (0: no suspension)
    alert,            \* the alert read by the verifier: "none", "phrase", "other"
    span,             \* the participation element: "none", "absent", "number", "other"
    status,           \* "none", "Success" or "Uncertain"
    warnings          \* warnings logged by the result verifier

timeVars == <<now>>
runVars == <<runs, runLog>>
targetVars ==
    <<password, org, targetKind, requested, pageEnroll, pageLesson, compared>>
windowVars == <<enrollment_start, lesson_start>>
handleVars == <<driver, live, acquired, staleQuits, releaseFailed>>
endVars == <<outcome, failure, exitStatus>>
loopVars == <<enrolled, ops, cycles, attempts, lostRaces, clicks>>
pollVars == <<pollLog, pollSleeps, pollRefreshes, pollStart>>
waitVars == <<waitCalls, waitRead, sleep_time>>
loginVars == <<loginCalls, loginSteps, flows, lastLogin>>
textVars == <<labels, enrollment_interval_raw, lesson_interval_raw>>
verifyVars ==
    <<enrollment_number, participation_text, alert, span, status, warnings>>

vars == <<labels, password, log, enrollment_interval_raw, lesson_interval_raw,
          loginCalls, loginSteps, flows, lastLogin, enrollment_number,
          participation_text, pc, now, runs, runLog, org, targetKind, requested,
          pageEnroll, pageLesson, compared, enrollment_start, lesson_start,
          driver, live, acquired, staleQuits, releaseFailed, exc, outcome,
          failure, exitStatus, phase, enrolled, logins, ops, cycles, attempts,
          lostRaces, clicks, pollLog, pollSleeps, pollRefreshes, pollStart,
          waitCalls, waitRead, sleep_time, alert, span, status, warnings>>

Phases == {"resolve", "check", "enroll"}

(* The state of a freshly started process. *)
FreshProcess ==
    /\ labels = {}
    /\ log = <<>>
    /\ enrollment_interval_raw = <<>>
    /\ lesson_interval_raw = <<>>
    /\ loginCalls = 0
    /\ loginSteps = <<>>
    /\ flows = <<>>
    /\ lastLogin = "none"
    /\ enrollment_number = "none"
    /\ participation_text = <<>>
    /\ compared = FALSE
    /\ enrollment_start = 0
    /\ lesson_start = 0
    /\ driver = Unbound
    /\ live = {}
    /\ acquired = 0
    /\ staleQuits = 0
    /\ releaseFailed = FALSE
    /\ exc = "none"
    /\ outcome = "running"
    /\ failure = "none"
    /\ exitStatus = -1
    /\ phase = "none"
    /\ enrolled = FALSE
    /\ logins = [p \in Phases |-> 0]
    /\ ops = <<>>
    /\ cycles = 0
    /\ attempts = 0
    /\ lostRaces = 0
    /\ clicks = 0
    /\ pollLog = <<>>
    /\ pollSleeps = 0
    /\ pollRefreshes = 0
    /\ pollStart = 0
    /\ waitCalls = 0
    /\ waitRead = 0
    /\ sleep_time = 0
    /\ alert = "none"
    /\ span = "none"
    /\ status = "none"
    /\ warnings = 0

Init ==
    /\ pc = "main"
    /\ now = 0
    /\ runs = 1
    /\ runLog = <<>>
    /\ org \in ORGANISATIONS
    /\ password = <<"a", "b">>
    /\ targetKind \in {"direct", "filters"}
    /\ pageEnroll \in {d : d \in EnrollOffsets}
    /\ pageLesson \in {pageEnroll + o : o \in LessonOffsets}
    /\ requested \in IF targetKind = "filters"
                     THEN {pageLesson, pageLesson - WeekShift}
                     ELSE {pageLesson}
    /\ FreshProcess


\* runs that differ in the password, for one window
InitCredentials ==
    /\ pc = "main"
    /\ now = 0
    /\ runs = 1
    /\ runLog = <<>>
    /\ org \in ORGANISATIONS
    /\ password \in Passwords
    /\ targetKind \in {"direct", "filters"}
    /\ pageEnroll = 100
    /\ pageLesson = pageEnroll + SecondsPerDay
    /\ requested \in IF targetKind = "filters"
                     THEN {pageLesson, pageLesson - WeekShift}
                     ELSE {pageLesson}
    /\ FreshProcess

(* --------------------------- shared pieces ---------------------------- *)
\* a logger that lets every record through
LogLevelVerbose == DEBUG

\* line 120: basicConfig(level=logging.INFO)
LogLevel == INFO

\* a log record: its level, its message and the values formatted into it
Record(l, m, a) == [level |-> l, msg |-> m, args |-> a]

\* logging.debug / logging.info: the record is emitted when its level reaches
\* the level of the logger
Emit(q, r) == IF r.level >= LogLevel THEN Append(q, r) ELSE q

\* line 375: "*" * len(password)
Mask(pw) == [i \in 1 .. Len(pw) |-> "*"]

\* datetime.timedelta.seconds: the seconds field of the normalised difference,
\* without its days
TdSeconds(d) == d % SecondsPerDay

\* wait_until: the seconds it sleeps for a difference read as `diff`
WaitSleepTime(diff) ==
    IF TdSeconds(diff) > login_before_enrollment_seconds
    THEN TdSeconds(diff) - login_before_enrollment_seconds
    ELSE 0

\* a process that leaves status 0 after every failure but the mismatch
ExitStatusOfSilent(f) == IF f = "WindowMismatch" THEN 2 ELSE 0

\* uncaught exceptions and exit(1) leave status 1, exit(2) leaves 2
ExitStatusOf(f) == IF f = "WindowMismatch" THEN 2 ELSE 1

\* AsvzEnroller.get_driver returned a new browser session
Acquire ==
    /\ acquired' = acquired + 1
    /\ driver' = acquired + 1
    /\ live' = live \cup {acquired + 1}
    /\ UNCHANGED <<staleQuits, releaseFailed>>

\* driver.quit() on the handle d
Quit(d) ==
    /\ live' = live \ {d}
    /\ staleQuits' = IF d \in live THEN staleQuits ELSE staleQuits + 1
    /\ UNCHANGED <<driver, acquired>>

\* the run ends with failure f
Terminate(f) ==
    /\ pc' = "end"
    /\ outcome' = "Failed"
    /\ failure' = f
    /\ exitStatus' = ExitStatusOf(f)

\* `finally: if driver is not None: driver.quit()`, then the exception in flight
\* (or the fall through to `next`)
Finally(next) ==
    IF driver = Unbound
    THEN \* reading the unbound local raises UnboundLocalError
         /\ releaseFailed' = TRUE
         /\ UNCHANGED <<driver, live, acquired, staleQuits>>
         /\ Terminate("UnboundLocalError")
         /\ exc' = "none"
    ELSE /\ IF driver # NoHandle
            THEN Quit(driver) /\ UNCHANGED releaseFailed
            ELSE UNCHANGED handleVars
         /\ exc' = "none"
         /\ IF exc # "none"
            THEN Terminate(exc)
            ELSE pc' = next /\ UNCHANGED endVars

(* ------------------------------- main --------------------------------- *)
\* main(): log the parsed arguments (line 894), then build the enroller from a
\* direct reference or from filters
Main ==
    /\ pc = "main"
    /\ IF targetKind = "filters"
       THEN /\ pc' = "res_get"
            /\ phase' = "resolve"
            /\ driver' = NoHandle
       ELSE /\ pc' = "enroll"
            /\ UNCHANGED <<phase, driver>>
    /\ log' = Emit(log, Record(DEBUG, "Parsed args", <<org, Username, password>>))
    /\ UNCHANGED <<timeVars, runVars, targetVars, windowVars, live, acquired,
                   staleQuits, releaseFailed, exc, endVars, loopVars, logins,
                   loginVars, textVars, pollVars, waitVars, verifyVars>>

(* ----------------------- from_lesson_attributes ----------------------- *)
ResGetDriver ==
    /\ pc = "res_get"
    /\ \/ Acquire /\ pc' = "res_find" /\ UNCHANGED exc
       \/ /\ exc' = "DriverError"
          /\ pc' = "res_finally"
          /\ UNCHANGED handleVars
    /\ UNCHANGED <<timeVars, runVars, targetVars, windowVars, endVars, phase,
                   loopVars, logins, loginVars, textVars, log, pollVars,
                   waitVars, verifyVars>>

(* ------------------------- interval texts ----------------------------- *)
\* An interval text is a sequence of words: a weekday, a comma, a timestamp
\* "DD.MM.YYYY HH:MM" (with the instant it names), a dash, a time of day
\* "HH:MM", or anything else.
Word(k, v) == [k |-> k, v |-> v]
Weekday == Word("weekday", 0)
Comma == Word("comma", 0)
Dash == Word("dash", 0)
Timestamp(x) == Word("timestamp", x)
TimeOfDay == Word("time", 0)
Junk == Word("junk", 0)

\* texts the portal can show for an enrollment interval that opens at x, like
\* 'Mo, 04.12.2023 10:00 - Di, 26.12.2023 23:59': with two closing times,
\* without the weekday, without the dash, with an unreadable opening time
EnrollmentIntervalTexts(x) ==
    { <<Weekday, Comma, Timestamp(x), Dash, Weekday, Comma, Timestamp(x + SecondsPerDay)>>,
      <<Weekday, Comma, Timestamp(x), Dash, Weekday, Comma, Timestamp(x + WeekShift)>>,
      <<Timestamp(x), Dash, Timestamp(x + SecondsPerDay)>>,
      <<Weekday, Comma, Timestamp(x), Weekday, Comma, Timestamp(x + SecondsPerDay)>>,
      <<Weekday, Comma, Junk, Dash, Weekday, Comma, Timestamp(x + SecondsPerDay)>> }

\* texts the portal can show for a session that starts at x, like
\* 'Mo, 10.05.2021 06:55 - 08:05'
LessonIntervalTexts(x) ==
    { <<Weekday, Comma, Timestamp(x), Dash, TimeOfDay>>,
      <<Weekday, Comma, Timestamp(x)>>,
      <<Timestamp(x), Dash, TimeOfDay>>,
      <<Weekday, Comma, Junk, Dash, TimeOfDay>> }

\* positions of the words of kind k in t
Positions(t, k) == {i \in 1 .. Len(t) : t[i].k = k}

First(S) == CHOOSE i \in S : \A j \in S : i <= j

\* .split("-")[0]: the words before the first dash, all of them without one
BeforeDash(t) ==
    IF Positions(t, "dash") = {} THEN t
    ELSE SubSeq(t, 1, First(Positions(t, "dash")) - 1)

\* .split(",")[1]: the words between the first comma and the second one (or
\* the end); without a comma the list has one element and [1] raises IndexError
AfterComma(t) ==
    LET c == Positions(t, "comma")
    IN  IF c = {} THEN [err |-> "IndexError", words |-> <<>>]
        ELSE LET a == First(c)
                 rest == c \ {a}
                 b == IF rest = {} THEN Len(t) + 1 ELSE First(rest)
             IN  [err |-> "none", words |-> SubSeq(t, a + 1, b - 1)]

\* datetime.strptime(raw, "%d.%m.%Y %H:%M"): raw is one timestamp and nothing
\* else, or ValueError, which the caller turns into AsvzBotException
Strptime(raw) ==
    IF Len(raw) = 1 /\ raw[1].k = "timestamp"
    THEN [err |-> "none", value |-> raw[1].v]
    ELSE [err |-> "ParseError", value |-> 0]

\* lines 510-524 and 545-558: the start of an interval text
StartTime(t) ==
    LET raw == AfterComma(BeforeDash(t))
    IN  IF raw.err # "none" THEN [err |-> raw.err, value |-> 0]
        ELSE Strptime(raw.words)

\* the labels of the two interval sections, as the lookups name them
EnrollmentLabel == "Einschreibezeitraum"
EnrollmentFallbackLabel == "Anmeldezeitraum"
LessonLabel == "Datum/Zeit"
LessonFallbackLabel == "Lektionen"

\* label sets of the lesson pages that are read: a section is labelled by its
\* usual label, by the other one, or is missing
PageLabels ==
    { {EnrollmentLabel, LessonLabel},
      {EnrollmentFallbackLabel, LessonLabel},
      {EnrollmentLabel, LessonFallbackLabel},
      {LessonLabel},
      {EnrollmentLabel} }

\* `//dl[contains(., label)]/dd` finds an element on a page with the labels L
DdOfDl(L, label) == label \in L

\* line 543: the position asked of the dd elements that follow the dt
FallbackSiblingIndex == 0

\* `//dt[contains(., label)]/following-sibling::dd[n]` finds an element: the dt
\* is followed by one dd, and XPath counts positions from 1
FollowingDd(L, label, n) == label \in L /\ n = 1

\* lines 501-509: the primary lookup, then the fallback lookup
FindEnrollmentInterval(L) ==
    DdOfDl(L, EnrollmentLabel) \/ DdOfDl(L, EnrollmentFallbackLabel)

\* lines 536-544
FindLessonInterval(L) ==
    \/ DdOfDl(L, LessonLabel)
    \/ FollowingDd(L, LessonFallbackLabel, FallbackSiblingIndex)

\* lines 491-492: what __get_enrollment_time and then __get_lesson_time can
\* read on a page and make of it; the session section is not looked up when
\* the enrollment section is missing or its text fails
WindowReadings ==
    LET Reading(L, te, tl, e, xe, xl) ==
            [labels |-> L,
             enrollment_interval_raw |-> te,
             lesson_interval_raw |-> tl,
             err |-> e,
             enrollment_start |-> xe,
             lesson_start |-> xl]
        Good(T) == {t \in T : StartTime(t).err = "none"}
        Bad(T) == {t \in T : StartTime(t).err # "none"}
        ETexts == EnrollmentIntervalTexts(pageEnroll)
        LTexts == LessonIntervalTexts(pageLesson)
        EFound == {L \in PageLabels : FindEnrollmentInterval(L)}
    IN  {Reading(L, <<>>, <<>>, "NoSuchElement", 0, 0) : L \in PageLabels \ EFound}
        \cup {Reading(L, te, <<>>, StartTime(te).err, 0, 0) :
                 L \in EFound, te \in Bad(ETexts)}
        \cup {Reading(L, te, <<>>, "NoSuchElement", StartTime(te).value, 0) :
                 L \in {M \in EFound : ~FindLessonInterval(M)}, te \in Good(ETexts)}
        \cup {Reading(L, te, tl, StartTime(tl).err, StartTime(te).value,
                      StartTime(tl).value) :
                 L \in {M \in EFound : FindLessonInterval(M)},
                 te \in Good(ETexts), tl \in LTexts}

\* the calendar page: the day element, the lesson entry and its link
ResFindLesson ==
    /\ pc = "res_find"
    /\ \/ pc' = "res_time" /\ UNCHANGED exc
       \/ exc' = "LessonNotFound" /\ pc' = "res_finally"
    /\ UNCHANGED <<timeVars, runVars, targetVars, windowVars, handleVars,
                   endVars, phase, loopVars, logins, loginVars, textVars, log,
                   pollVars, waitVars, verifyVars>>

\* WindowMismatch that only sees a session earlier than requested
WindowEarlier(found, expected) == found < expected

\* the comparison lesson_start != expected_lesson_start
WindowMismatch(found, expected) == found # expected

\* open the lesson page, read its start time and compare it with the request
ResCompare ==
    /\ pc = "res_time"
    /\ pc' = "res_finally"
    /\ \/ \E w \in WindowReadings :
            /\ labels' = w.labels
            /\ enrollment_interval_raw' = w.enrollment_interval_raw
            /\ lesson_interval_raw' = w.lesson_interval_raw
            /\ IF w.err = "none"
               THEN /\ compared' = TRUE
                    /\ exc' = IF WindowMismatch(w.lesson_start, requested)
                              THEN "WindowMismatch" ELSE "none"
               ELSE /\ exc' = IF w.err = "NoSuchElement"
                              THEN "LessonNotFound" ELSE w.err
                    /\ UNCHANGED compared
       \/ /\ exc' = "LessonNotFound"
          /\ UNCHANGED <<compared, textVars>>
    /\ UNCHANGED <<timeVars, runVars, password, org, targetKind, requested,
                   pageEnroll, pageLesson, windowVars, handleVars, endVars,
                   phase, loopVars, logins, loginVars, log, pollVars, waitVars,
                   verifyVars>>

ResFinally ==
    /\ pc = "res_finally"
    /\ Finally("enroll")
    /\ labels' = {}
    /\ enrollment_interval_raw' = <<>>
    /\ lesson_interval_raw' = <<>>
    /\ UNCHANGED phase
    /\ UNCHANGED <<timeVars, runVars, targetVars, windowVars, loopVars, logins,
                   loginVars, log, pollVars, waitVars, verifyVars>>


(* ------------------------------ enroll -------------------------------- *)
\* the enroller is constructed, which logs the summary (lines 371-378), and
\* enroll() is entered: its local `driver` is not bound yet
EnrollStart ==
    /\ pc = "enroll"
    /\ pc' = "p1_get"
    /\ phase' = "check"
    /\ driver' = Unbound
    /\ log' = Emit(log, Record(INFO, "Summary", <<org, Username, Mask(password)>>))
    /\ UNCHANGED <<timeVars, runVars, targetVars, windowVars, live, acquired,
                   staleQuits, releaseFailed, exc, endVars, loopVars, logins,
                   loginVars, textVars, pollVars, waitVars, verifyVars>>

\* organisations whose identity provider asks for the password on a second screen
TwoStep(o) ==
    o = SWITCH_EDUID_ORGANISATION_NAME \/ o = UZH_ORGANISATION_NAME

\* lines 576-617: the flow __organisation_login hands the credentials to
FlowOfUzhDefault(o) ==
    IF o = ASVZ_ORGANISATION_NAME THEN "Native"
    ELSE IF o = SWITCH_EDUID_ORGANISATION_NAME THEN "TwoStep" ELSE "Default"

FlowOf(o) ==
    IF o = ASVZ_ORGANISATION_NAME THEN "Native"
    ELSE IF TwoStep(o) THEN "TwoStep" ELSE "Default"

\* one step of a login: what it does, the flow it belongs to ("none": the part
\* all flows share) and the exception it raises when its element is missing
\* or never becomes clickable ("none": the step cannot fail this way)
Step(a, f, e) == [act |-> a, flow |-> f, err |-> e]

\* lines 567-574, and for the federated flows 579-600
CommonSteps(o) ==
    <<Step("click_login", "none", "Timeout")>>
    \o (IF o = ASVZ_ORGANISATION_NAME THEN <<>>
        ELSE <<Step("click_switch_aai", "none", "Timeout"),
               Step("wait_select", "none", "Timeout"),
               Step("organisation", "none", "UnexpectedPageStructure")>>)

\* lines 631-646
NativeSteps ==
    <<Step("username", "Native", "UnexpectedPageStructure"),
      Step("password", "Native", "UnexpectedPageStructure"),
      Step("click_submit", "Native", "Timeout")>>

\* a two-step flow that looks for the password field after the second click
TwoStepStepsLateCheck ==
    <<Step("username", "TwoStep", "UnexpectedPageStructure"),
      Step("click_continue", "TwoStep", "Timeout"),
      Step("click_continue", "TwoStep", "Timeout"),
      Step("password", "TwoStep", "AuthenticationFailure")>>

\* lines 648-679: a missing password field ends the process (exit(1), line 670)
TwoStepSteps ==
    <<Step("username", "TwoStep", "UnexpectedPageStructure"),
      Step("click_continue", "TwoStep", "Timeout"),
      Step("password", "TwoStep", "AuthenticationFailure"),
      Step("click_continue", "TwoStep", "Timeout")>>

\* lines 681-699: both fields are looked up before anything is typed
DefaultSteps ==
    <<Step("wait_submit", "Default", "Timeout"),
      Step("find_username", "Default", "UnexpectedPageStructure"),
      Step("find_password", "Default", "UnexpectedPageStructure"),
      Step("username", "Default", "none"),
      Step("password", "Default", "none"),
      Step("click_submit", "Default", "UnexpectedPageStructure")>>

FlowSteps(f) ==
    IF f = "Native" THEN NativeSteps
    ELSE IF f = "TwoStep" THEN TwoStepSteps ELSE DefaultSteps

\* the steps of __organisation_login for organisation o, in order
LoginSteps(o) == CommonSteps(o) \o FlowSteps(FlowOf(o))

\* where a login of organisation o can stop: 0 (it returns) or the step that fails
LoginStops(o) ==
    {0} \cup {k \in 1 .. Len(LoginSteps(o)) : LoginSteps(o)[k].err # "none"}

\* what __organisation_login can end with for organisation o: it returns, a
\* control never becomes clickable, a field is missing, or (two-step flow) the
\* password field is missing and the process exits
LoginResults(o) ==
    {"ok"} \cup {LoginSteps(o)[k].err : k \in LoginStops(o) \ {0}}

\* a login that takes being off the lesson pages for a failed authentication
OrganisationLoginStrictUrl(k, u, p, next, fin) ==
    LET steps == LoginSteps(org)
        done  == IF k = 0 THEN steps ELSE SubSeq(steps, 1, k - 1)
        reach == IF k = 0 THEN steps ELSE SubSeq(steps, 1, k)
        entered == {i \in 1 .. Len(reach) : reach[i].flow # "none"}
    IN  /\ loginCalls' = loginCalls + 1
        /\ log' = IF k = 1 THEN log
                  ELSE Emit(log, Record(INFO, "Login to", <<org>>))
        /\ loginSteps' = [i \in 1 .. Len(done) |-> done[i].act]
        /\ flows' = IF entered = {} THEN flows
                    ELSE Append(flows, reach[CHOOSE i \in entered : TRUE].flow)
        /\ IF k = 0 /\ u
           THEN /\ lastLogin' = "valid"
                /\ logins' = [logins EXCEPT ![p] = @ + 1]
                /\ now' = now + RedirectDelay
                /\ pc' = next
                /\ UNCHANGED exc
           ELSE /\ lastLogin' = IF k = 0 THEN "suspect" ELSE "failed"
                /\ exc' = IF k = 0 THEN "AuthenticationFailure" ELSE steps[k].err
                /\ pc' = fin
                /\ now' = IF k = 0 THEN now + RedirectDelay ELSE now
                /\ UNCHANGED logins

\* __organisation_login in phase p: it stops at step k (0: it returns) and, when
\* it returns, the browser is (u) or is not under LESSON_BASE_URL, which only
\* changes what is logged (lines 622-629); `next` follows a login that
\* returned, `fin` is the finally clause of the phase
OrganisationLogin(k, u, p, next, fin) ==
    LET steps == LoginSteps(org)
        done  == IF k = 0 THEN steps ELSE SubSeq(steps, 1, k - 1)
        reach == IF k = 0 THEN steps ELSE SubSeq(steps, 1, k)
        entered == {i \in 1 .. Len(reach) : reach[i].flow # "none"}
    IN  /\ loginCalls' = loginCalls + 1
        /\ log' = IF k = 1 THEN log
                  ELSE Emit(log, Record(INFO, "Login to", <<org>>))
        /\ loginSteps' = [i \in 1 .. Len(done) |-> done[i].act]
        /\ flows' = IF entered = {} THEN flows
                    ELSE Append(flows, reach[CHOOSE i \in entered : TRUE].flow)
        /\ IF k = 0
           THEN /\ lastLogin' = IF u THEN "valid" ELSE "suspect"
                /\ logins' = [logins EXCEPT ![p] = @ + 1]
                /\ now' = now + RedirectDelay
                /\ pc' = next
                /\ UNCHANGED exc
           ELSE /\ lastLogin' = "failed"
                /\ exc' = steps[k].err
                /\ pc' = fin
                /\ UNCHANGED <<logins, now>>

(* credential check: lines 382-396 *)
CheckGetDriver ==
    /\ pc = "p1_get"
    /\ \/ Acquire /\ pc' = "p1_login" /\ UNCHANGED exc
       \/ /\ exc' = "DriverError"
          /\ pc' = "p1_finally"
          /\ UNCHANGED handleVars
    /\ UNCHANGED <<timeVars, runVars, targetVars, windowVars, endVars, phase,
                   loopVars, logins, loginVars, textVars, log, pollVars,
                   waitVars, verifyVars>>

\* a credential check that reads the window without logging in
CheckLoginOmitted ==
    /\ pc = "p1_login"
    /\ pc' = "p1_window"
    /\ UNCHANGED <<timeVars, runVars, targetVars, windowVars, handleVars, exc,
                   endVars, phase, loopVars, logins, loginVars, textVars, log,
                   pollVars, waitVars, verifyVars>>

\* line 386: the login of the credential check
CheckLogin ==
    /\ pc = "p1_login"
    /\ \E k \in LoginStops(org), u \in BOOLEAN :
        /\ k # 0 => u
        /\ OrganisationLogin(k, u, "check", "p1_window", "p1_finally")
    /\ UNCHANGED <<textVars, runVars, targetVars, windowVars, handleVars,
                   endVars, phase, loopVars, pollVars, waitVars, verifyVars>>

\* __get_enrollment_and_start_time: both interval labels are read and parsed
CheckWindow ==
    /\ pc = "p1_window"
    /\ pc' = "p1_finally"
    /\ \E w \in WindowReadings :
            /\ labels' = w.labels
            /\ enrollment_interval_raw' = w.enrollment_interval_raw
            /\ lesson_interval_raw' = w.lesson_interval_raw
            /\ IF w.err = "none"
               THEN /\ enrollment_start' = w.enrollment_start
                    /\ lesson_start' = w.lesson_start
                    /\ UNCHANGED exc
               ELSE /\ exc' = IF w.err = "NoSuchElement"
                              THEN "UnexpectedPageStructure" ELSE w.err
                    /\ UNCHANGED windowVars
    /\ UNCHANGED <<timeVars, runVars, targetVars, handleVars, endVars, phase,
                   loopVars, logins, loginVars, log, pollVars, waitVars,
                   verifyVars>>

CheckFinally ==
    /\ pc = "p1_finally"
    /\ Finally("check_wait")
    /\ labels' = {}
    /\ enrollment_interval_raw' = <<>>
    /\ lesson_interval_raw' = <<>>
    /\ UNCHANGED <<timeVars, runVars, targetVars, windowVars, phase, loopVars,
                   logins, loginVars, log, pollVars, waitVars, verifyVars>>

\* a run that calls wait_until whatever the clock says
CheckWaitAlways ==
    /\ pc = "check_wait"
    /\ \E e \in Elapsed : now' = now + e
    /\ pc' = "wait"
    /\ phase' = "wait"
    /\ UNCHANGED <<runVars, targetVars, windowVars, handleVars, exc, endVars,
                   loopVars, logins, loginVars, textVars, log, pollVars,
                   waitVars, verifyVars>>

\* line 398: `if datetime.today() < self.enrollment_start`
CheckWait ==
    /\ pc = "check_wait"
    /\ \E e \in Elapsed :
        /\ now' = now + e
        /\ IF now' < enrollment_start
           THEN pc' = "wait" /\ phase' = "wait"
           ELSE pc' = "p2_get" /\ phase' = "enroll"
    /\ UNCHANGED <<runVars, targetVars, windowVars, handleVars, exc, endVars,
                   loopVars, logins, loginVars, textVars, log, pollVars,
                   waitVars, verifyVars>>

\* wait_until: reads the clock again, sleeps sleep_time seconds if that is due
WaitUntil ==
    /\ pc = "wait"
    /\ \E e \in Elapsed :
        LET current_time == now + e
            st == WaitSleepTime(enrollment_start - current_time)
        IN  /\ waitRead' = current_time
            /\ sleep_time' = st
            /\ now' = current_time + st
    /\ waitCalls' = waitCalls + 1
    /\ pc' = "p2_get"
    /\ phase' = "enroll"
    /\ UNCHANGED <<runVars, targetVars, windowVars, handleVars, exc, endVars,
                   loopVars, logins, loginVars, textVars, log, pollVars,
                   verifyVars>>


(* enrollment phase: lines 401-478 *)
EnrollGetDriver ==
    /\ pc = "p2_get"
    /\ \/ Acquire /\ pc' = "loop" /\ UNCHANGED exc
       \/ \* `driver` keeps the handle of the credential check
          /\ exc' = "DriverError"
          /\ pc' = "p2_finally"
          /\ UNCHANGED handleVars
    /\ UNCHANGED <<timeVars, runVars, targetVars, windowVars, endVars, phase,
                   loopVars, logins, loginVars, textVars, log, pollVars,
                   waitVars, verifyVars>>

\* a cycle that never polls
EnrollmentOpenNever(start, today) == FALSE

\* line 410: whether this cycle polls for free places before it logs in
EnrollmentOpen(start, today) == start < today

\* LoopTop with the login left out of a cycle that does not poll
LoopTopSkipsLogin ==
    /\ pc = "loop"
    /\ ~enrolled
    /\ cycles < MaxCycles
    /\ cycles' = cycles + 1
    /\ ops' = Append(ops, "cycle")
    /\ pc' = IF EnrollmentOpen(enrollment_start, now) THEN "poll" ELSE "claim"
    /\ pollLog' = <<>>
    /\ pollSleeps' = 0
    /\ pollRefreshes' = 0
    /\ pollStart' = now
    /\ UNCHANGED <<timeVars, runVars, targetVars, windowVars, handleVars, exc,
                   endVars, phase, enrolled, attempts, lostRaces, clicks,
                   logins, loginVars, textVars, log, waitVars, verifyVars>>

\* one iteration of `while not enrolled` begins
LoopTop ==
    /\ pc = "loop"
    /\ ~enrolled
    /\ cycles < MaxCycles
    /\ cycles' = cycles + 1
    /\ ops' = Append(ops, "cycle")
    /\ pc' = IF EnrollmentOpen(enrollment_start, now) THEN "poll" ELSE "p2_login"
    /\ pollLog' = <<>>
    /\ pollSleeps' = 0
    /\ pollRefreshes' = 0
    /\ pollStart' = now
    /\ UNCHANGED <<timeVars, runVars, targetVars, windowVars, handleVars, exc,
                   endVars, phase, enrolled, attempts, lostRaces, clicks,
                   logins, loginVars, textVars, log, waitVars, verifyVars>>

\* HasFreePlaces with >= for >
HasFreePlacesOrZero(num_free_spots) == num_free_spots >= 0

\* line 708: the sample ends the polling
HasFreePlaces(num_free_spots) == num_free_spots > 0

\* LessonHasStarted with the comparison turned round
LessonNotStarted(today, start) == today < start

\* line 712: the deadline of the polling
LessonHasStarted(today, start) == today > start

\* a poller that reads the deadline before it looks at the sample
PollIterationDeadlineFirst ==
    /\ pc = "poll"
    /\ Len(pollLog) < MaxSamples
    /\ \/ \* the capacity indicator is not on the page
          /\ exc' = "UnexpectedPageStructure"
          /\ pc' = "p2_finally"
          /\ UNCHANGED <<now, ops, pollVars>>
       \/ \* its text is not a number: int() raises
          /\ exc' = "ValueError"
          /\ pc' = "p2_finally"
          /\ UNCHANGED <<now, ops, pollVars>>
       \/ \E num_free_spots \in Capacities :
            /\ pollLog' = Append(pollLog, num_free_spots)
            /\ IF LessonHasStarted(now, lesson_start)
               THEN /\ ops' = Append(ops, "sample")
                    /\ exc' = "CapacityExhausted"
                    /\ pc' = "p2_finally"
                    /\ UNCHANGED <<now, pollSleeps, pollRefreshes, pollStart>>
               ELSE /\ IF HasFreePlaces(num_free_spots)
                       THEN /\ ops' = ops \o <<"sample", "ready">>
                            /\ pc' = "p2_login"
                            /\ UNCHANGED <<now, exc, pollSleeps, pollRefreshes,
                                           pollStart>>
                       ELSE /\ ops' = Append(ops, "sample")
                            /\ now' = now + retry_interval_sec
                            /\ pollSleeps' = pollSleeps + 1
                            /\ pollRefreshes' = pollRefreshes + 1
                            /\ pc' = "poll"
                            /\ UNCHANGED <<exc, pollStart>>
    /\ UNCHANGED <<runVars, targetVars, windowVars, handleVars, endVars, phase,
                   enrolled, cycles, attempts, lostRaces, clicks, logins,
                   loginVars, textVars, log, waitVars, verifyVars>>

\* one iteration of the loop of __wait_for_free_places: sample, then return,
\* raise, or sleep and refresh
PollIteration ==
    /\ pc = "poll"
    /\ Len(pollLog) < MaxSamples
    /\ \/ \* the capacity indicator is not on the page
          /\ exc' = "UnexpectedPageStructure"
          /\ pc' = "p2_finally"
          /\ UNCHANGED <<now, ops, pollVars>>
       \/ \* its text is not a number: int() raises
          /\ exc' = "ValueError"
          /\ pc' = "p2_finally"
          /\ UNCHANGED <<now, ops, pollVars>>
       \/ \E num_free_spots \in Capacities :
            /\ pollLog' = Append(pollLog, num_free_spots)
            /\ IF HasFreePlaces(num_free_spots)
               THEN /\ ops' = ops \o <<"sample", "ready">>
                    /\ pc' = "p2_login"
                    /\ UNCHANGED <<now, exc, pollSleeps, pollRefreshes, pollStart>>
               ELSE /\ ops' = Append(ops, "sample")
                    /\ IF LessonHasStarted(now, lesson_start)
                       THEN /\ exc' = "CapacityExhausted"
                            /\ pc' = "p2_finally"
                            /\ UNCHANGED <<now, pollSleeps, pollRefreshes, pollStart>>
                       ELSE /\ now' = now + retry_interval_sec
                            /\ pollSleeps' = pollSleeps + 1
                            /\ pollRefreshes' = pollRefreshes + 1
                            /\ pc' = "poll"
                            /\ UNCHANGED <<exc, pollStart>>
    /\ UNCHANGED <<runVars, targetVars, windowVars, handleVars, endVars, phase,
                   enrolled, cycles, attempts, lostRaces, clicks, logins,
                   loginVars, textVars, log, waitVars, verifyVars>>

\* an enrollment phase that logs in once and keeps that login for later cycles
EnrollLoginOncePerSession ==
    /\ pc = "p2_login"
    /\ IF logins["enroll"] = 0
       THEN \E k \in LoginStops(org), u \in BOOLEAN :
               /\ k # 0 => u
               /\ OrganisationLogin(k, u, "enroll", "claim", "p2_finally")
               /\ ops' = IF k = 0 THEN Append(ops, "login") ELSE ops
       ELSE /\ pc' = "claim"
            /\ UNCHANGED <<now, exc, ops, logins, loginVars, log>>
    /\ UNCHANGED <<textVars, runVars, targetVars, windowVars, handleVars,
                   endVars, phase, enrolled, cycles, attempts, lostRaces,
                   clicks, pollVars, waitVars, verifyVars>>

\* line 418: the login of a cycle
EnrollLogin ==
    /\ pc = "p2_login"
    /\ \E k \in LoginStops(org), u \in BOOLEAN :
        /\ k # 0 => u
        /\ OrganisationLogin(k, u, "enroll", "claim", "p2_finally")
        /\ ops' = IF k = 0 THEN Append(ops, "login") ELSE ops
    /\ UNCHANGED <<textVars, runVars, targetVars, windowVars, handleVars,
                   endVars, phase, enrolled, cycles, attempts, lostRaces,
                   clicks, pollVars, waitVars, verifyVars>>


\* ClaimAttempt whose timeout handler does not `continue`
ClaimAttemptNoContinue ==
    /\ pc = "claim"
    /\ attempts' = attempts + 1
    /\ \/ /\ clicks' = clicks + 1
          /\ now' = now + SettleDelay
          /\ enrolled' = TRUE
          /\ ops' = ops \o <<"claim", "claimed">>
          /\ pc' = "verify"
          /\ UNCHANGED lostRaces
       \/ /\ lostRaces' = lostRaces + 1
          /\ now' = now + ClaimTimeout
          /\ enrolled' = TRUE
          /\ ops' = ops \o <<"claim", "lost">>
          /\ pc' = "verify"
          /\ UNCHANGED clicks
    /\ UNCHANGED <<runVars, targetVars, windowVars, handleVars, exc, endVars,
                   phase, cycles, logins, loginVars, textVars, log, pollVars,
                   waitVars, verifyVars>>

\* lines 420-439: wait up to five minutes for the claim control, click it
ClaimAttempt ==
    /\ pc = "claim"
    /\ attempts' = attempts + 1
    /\ \/ \* the control became clickable: click, settle, leave the loop
          /\ clicks' = clicks + 1
          /\ now' = now + SettleDelay
          /\ enrolled' = TRUE
          /\ ops' = ops \o <<"claim", "claimed">>
          /\ pc' = "verify"
          /\ UNCHANGED lostRaces
       \/ \* TimeoutException: `continue`
          /\ lostRaces' = lostRaces + 1
          /\ now' = now + ClaimTimeout
          /\ ops' = ops \o <<"claim", "lost">>
          /\ pc' = "loop"
          /\ UNCHANGED <<clicks, enrolled>>
    /\ UNCHANGED <<runVars, targetVars, windowVars, handleVars, exc, endVars,
                   phase, cycles, logins, loginVars, textVars, log, pollVars,
                   waitVars, verifyVars>>

\* VerifyStatus that does not look at the alert
VerifyStatusAlwaysSuccess(has_phrase) == "Success"

\* line 451: the status read off the alert text
VerifyStatus(has_phrase) == IF has_phrase THEN "Success" ELSE "Uncertain"

\* warnings the verifier logs for an alert a and a participation text t
VerifyWarnings(a, t) ==
    (IF a = "phrase" THEN 0 ELSE 1) + (IF t = "number" THEN 0 ELSE 1)

\* words of a page text that matter to the verifier; words are one blank apart
\* and NewLine is a line break
NewLine == "\n"
Digits == {"42"}
EnrollmentPhrase == <<"Du", "hast", "die", "Platz-Nr.">>

\* inner texts the first span of the enrollment element can show
ParticipationTexts ==
    { EnrollmentPhrase \o <<"42">>,
      <<"Hallo">> \o EnrollmentPhrase \o <<"42", "viel", "Spass">>,
      <<"Platz-Nr.", "42">>,
      <<NewLine>> \o EnrollmentPhrase \o <<"42">>,
      <<"Einschreiben">> }

\* the phrase and a number stand at words i .. i + 4 of t
MatchAt(t, i) ==
    /\ i + Len(EnrollmentPhrase) <= Len(t)
    /\ \A k \in 1 .. Len(EnrollmentPhrase) : t[i + k - 1] = EnrollmentPhrase[k]
    /\ t[i + Len(EnrollmentPhrase)] \in Digits

\* re.match anchors at the start of the text and "." matches no line break:
\* the words before the phrase are on the first line
MatchStarts(t) ==
    {i \in 1 .. Len(t) : MatchAt(t, i) /\ \A k \in 1 .. (i - 1) : t[k] # NewLine}

\* a pattern that asks for the number label alone, anywhere in the text
LESSON_ENROLLMENT_NUMBER_REGEX_LabelOnly(t) ==
    IF \E i \in 1 .. (Len(t) - 1) : t[i] = "Platz-Nr." /\ t[i + 1] \in Digits
    THEN "42" ELSE "none"

\* line 127 and 461-463: group 1 of the match, the leading ".*" being greedy, or
\* "none" when the pattern does not match
LESSON_ENROLLMENT_NUMBER_REGEX(t) ==
    IF MatchStarts(t) = {} THEN "none"
    ELSE LET i == CHOOSE j \in MatchStarts(t) : \A k \in MatchStarts(t) : k <= j
         IN  t[i + Len(EnrollmentPhrase)]

\* a verifier that sends an uncertain result back into the retry loop
VerifyRetriesWhenUncertain ==
    /\ pc = "verify"
    /\ ops' = Append(ops, "verify")
    /\ \/ /\ exc' = "UnexpectedPageStructure"
          /\ UNCHANGED verifyVars
       \/ \E a \in {"phrase", "other"} :
            /\ alert' = a
            /\ status' = VerifyStatus(a = "phrase")
            /\ \/ /\ span' = "absent"
                  /\ exc' = "UnexpectedPageStructure"
                  /\ warnings' = warnings + (IF a = "phrase" THEN 0 ELSE 1)
                  /\ UNCHANGED <<participation_text, enrollment_number>>
               \/ \E t \in ParticipationTexts :
                    /\ participation_text' = t
                    /\ enrollment_number' = LESSON_ENROLLMENT_NUMBER_REGEX(t)
                    /\ span' = IF enrollment_number' # "none" THEN "number" ELSE "other"
                    /\ warnings' = warnings + VerifyWarnings(a, span')
                    /\ UNCHANGED exc
    /\ pc' = IF alert' = "other" /\ exc' = "none" THEN "loop" ELSE "p2_finally"
    /\ enrolled' = IF alert' = "other" /\ exc' = "none" THEN FALSE ELSE enrolled
    /\ UNCHANGED <<timeVars, runVars, targetVars, windowVars, handleVars,
                   endVars, phase, cycles, attempts, lostRaces, clicks, logins,
                   loginVars, textVars, log, pollVars, waitVars>>

\* lines 441-471: read the confirmation; the page either lacks the enrollment
\* element or its alert, or has the alert and lacks the participation element,
\* or has both
Verify ==
    /\ pc = "verify"
    /\ pc' = "p2_finally"
    /\ ops' = Append(ops, "verify")
    /\ \/ /\ exc' = "UnexpectedPageStructure"
          /\ UNCHANGED verifyVars
       \/ \E a \in {"phrase", "other"} :
            /\ alert' = a
            /\ status' = VerifyStatus(a = "phrase")
            /\ \/ /\ span' = "absent"
                  /\ exc' = "UnexpectedPageStructure"
                  /\ warnings' = warnings + (IF a = "phrase" THEN 0 ELSE 1)
                  /\ UNCHANGED <<participation_text, enrollment_number>>
               \/ \E t \in ParticipationTexts :
                    /\ participation_text' = t
                    /\ enrollment_number' = LESSON_ENROLLMENT_NUMBER_REGEX(t)
                    /\ span' = IF enrollment_number' # "none" THEN "number" ELSE "other"
                    /\ warnings' = warnings + VerifyWarnings(a, span')
                    /\ UNCHANGED exc
    /\ UNCHANGED <<timeVars, runVars, targetVars, windowVars, handleVars,
                   endVars, phase, enrolled, cycles, attempts, lostRaces,
                   clicks, logins, loginVars, textVars, log, pollVars,
                   waitVars>>

\* lines 476-478, then the end of enroll() and of main()
EnrollFinally ==
    /\ pc = "p2_finally"
    /\ Finally("end")
    /\ UNCHANGED <<timeVars, runVars, targetVars, windowVars, phase, loopVars,
                   logins, loginVars, textVars, log, pollVars, waitVars,
                   verifyVars>>

\* the process ends normally
Finish ==
    /\ pc = "end"
    /\ outcome = "running"
    /\ outcome' = "Done"
    /\ exitStatus' = 0
    /\ UNCHANGED <<pc, failure, timeVars, runVars, targetVars, windowVars,
                   handleVars, exc, phase, loopVars, logins, loginVars,
                   textVars, log, pollVars, waitVars, verifyVars>>

\* the same, as the effect of starting the process again
ResetProcess ==
    /\ labels' = {}
    /\ log' = <<>>
    /\ enrollment_interval_raw' = <<>>
    /\ lesson_interval_raw' = <<>>
    /\ loginCalls' = 0
    /\ loginSteps' = <<>>
    /\ flows' = <<>>
    /\ lastLogin' = "none"
    /\ enrollment_number' = "none"
    /\ participation_text' = <<>>
    /\ compared' = FALSE
    /\ enrollment_start' = 0
    /\ lesson_start' = 0
    /\ driver' = Unbound
    /\ live' = {}
    /\ acquired' = 0
    /\ staleQuits' = 0
    /\ releaseFailed' = FALSE
    /\ exc' = "none"
    /\ outcome' = "running"
    /\ failure' = "none"
    /\ exitStatus' = -1
    /\ phase' = "none"
    /\ enrolled' = FALSE
    /\ logins' = [p \in Phases |-> 0]
    /\ ops' = <<>>
    /\ cycles' = 0
    /\ attempts' = 0
    /\ lostRaces' = 0
    /\ clicks' = 0
    /\ pollLog' = <<>>
    /\ pollSleeps' = 0
    /\ pollRefreshes' = 0
    /\ pollStart' = 0
    /\ waitCalls' = 0
    /\ waitRead' = 0
    /\ sleep_time' = 0
    /\ alert' = "none"
    /\ span' = "none"
    /\ status' = "none"
    /\ warnings' = 0

\* what one invocation leaves behind
RunRecord ==
    [mismatch |-> compared /\ pageLesson # requested,
     failure |-> failure,
     exitStatus |-> exitStatus,
     logins |-> logins["resolve"] + logins["check"] + logins["enroll"],
     samples |-> Len(SelectSeq(ops, LAMBDA o : o = "sample")),
     attempts |-> attempts]

\* the user starts main() again with the same arguments after a run that found
\* no session at the requested time
Reinvoke ==
    /\ pc = "end"
    /\ outcome = "Failed"
    /\ failure = "WindowMismatch"
    /\ runs < MaxRuns
    /\ runs' = runs + 1
    /\ runLog' = Append(runLog, RunRecord)
    /\ pc' = "main"
    /\ ResetProcess
    /\ UNCHANGED <<timeVars, password, org, targetKind, requested, pageEnroll,
                   pageLesson>>

Next ==
    \/ Main
    \/ ResGetDriver
    \/ ResFindLesson
    \/ ResCompare
    \/ ResFinally
    \/ EnrollStart
    \/ CheckGetDriver
    \/ CheckLogin
    \/ CheckWindow
    \/ CheckFinally
    \/ CheckWait
    \/ WaitUntil
    \/ EnrollGetDriver
    \/ LoopTop
    \/ PollIteration
    \/ EnrollLogin
    \/ ClaimAttempt
    \/ Verify
    \/ EnrollFinally
    \/ Finish
    \/ Reinvoke

Spec == Init /\ [][Next]_vars

SpecCredentials == InitCredentials /\ [][Next]_vars

TypeOK ==
    /\ pc \in {"main", "res_get", "res_find", "res_time", "res_finally", "enroll",
               "p1_get", "p1_login", "p1_window", "p1_finally", "check_wait",
               "wait", "p2_get", "loop", "poll", "p2_login", "claim", "verify",
               "p2_finally", "end"}
    /\ outcome \in {"running", "Done", "Failed"}
    /\ live \subseteq 1 .. acquired
    /\ status \in {"none", "Success", "Uncertain"}
    /\ alert \in {"none", "phrase", "other"}
    /\ loginCalls \in Nat
    /\ lastLogin \in {"none", "valid", "suspect", "failed"}
    /\ \A i \in 1 .. Len(flows) : flows[i] \in {"Native", "TwoStep", "Default"}
    /\ enrollment_interval_raw \in
           {<<>>} \cup UNION {EnrollmentIntervalTexts(x) : x \in EnrollOffsets}
    /\ Len(lesson_interval_raw) <= 5
    /\ labels \in {{}} \cup PageLabels
    /\ password \in Passwords
    /\ \A i \in 1 .. Len(log) : log[i].level \in {DEBUG, INFO}
    /\ span \in {"none", "absent", "number", "other"}
    /\ participation_text \in ParticipationTexts \cup {<<>>}
    /\ enrollment_number \in Digits \cup {"none"}
    /\ driver \in {Unbound, NoHandle} \cup (1 .. acquired)


(* ====================================================================== *)
(*                               Properties                               *)
(* ====================================================================== *)
Last(q) == q[Len(q)]

\* positions of ops that hold the operation o
At(o) == {i \in 1 .. Len(ops) : ops[i] = o}

(* ---------------------------------------------------------------------- *)
(* C1 (as stated): within the enrollment phase the login completes before *)
(* the first capacity sample is taken, every poll completes before the    *)
(* claim attempt of its cycle, and the verifier runs only after Claimed.  *)
(* ---------------------------------------------------------------------- *)
C1_LoginBeforeFirstSample ==
    /\ \A i \in At("sample") : \E j \in At("login") : j < i
    /\ \A i \in At("claim") : ops[i - 1] # "sample"
    /\ \A i \in At("verify") : ops[i - 1] = "claimed"

(* C1 (amended): the credential-check login completes before any capacity *)
(* sample; in the enrollment phase the operations of a cycle follow one   *)
(* another in the order poll (samples, then Ready), login, claim attempt: *)
(* a sample follows the start of the cycle or another sample, the login   *)
(* follows the start of the cycle or Ready, the claim attempt follows the *)
(* login of its cycle, a new cycle follows only a lost race, and the      *)
(* verifier follows only a claim attempt that returned Claimed.           *)
C1_PhaseOrder ==
    /\ ops # <<>> => logins["check"] >= 1 /\ ops[1] = "cycle"
    /\ \A i \in 2 .. Len(ops) :
        /\ ops[i] = "cycle" => ops[i - 1] = "lost"
        /\ ops[i] = "sample" => ops[i - 1] \in {"cycle", "sample"}
        /\ ops[i] = "ready" => ops[i - 1] = "sample"
        /\ ops[i] = "login" => ops[i - 1] \in {"cycle", "ready"}
        /\ ops[i] = "claim" => ops[i - 1] = "login"
        /\ ops[i] \in {"claimed", "lost"} => ops[i - 1] = "claim"
        /\ ops[i] = "verify" => ops[i - 1] = "claimed"

\* a second cycle polled, logged in, claimed and was verified
C1_Witness ==
    /\ lostRaces >= 1
    /\ Len(ops) >= 6
    /\ SubSeq(ops, Len(ops) - 5, Len(ops))
         = <<"sample", "ready", "login", "claim", "claimed", "verify">>

(* ---------------------------------------------------------------------- *)
(* C2: whenever wait_until reads a difference opensAt - now greater than  *)
(* the lead time, whatever its size, it sleeps exactly opensAt - now - 59 *)
(* seconds and so returns at or after opensAt - 59.                       *)
(* ---------------------------------------------------------------------- *)
C2_SleepsExactDifference ==
    (waitCalls > 0 /\ enrollment_start - waitRead > login_before_enrollment_seconds)
        => /\ sleep_time = enrollment_start - waitRead - login_before_enrollment_seconds
           /\ now >= enrollment_start - login_before_enrollment_seconds

(* ---------------------------------------------------------------------- *)
(* C3: whenever wait_until reads a difference opensAt - now of at most    *)
(* the lead time, a negative one (opensAt in the past) included, it does  *)
(* not suspend.                                                           *)
(* ---------------------------------------------------------------------- *)
C3_NoSuspensionWithinLead ==
    (waitCalls > 0 /\ enrollment_start - waitRead <= login_before_enrollment_seconds)
        => sleep_time = 0

(* ---------------------------------------------------------------------- *)
(* C4: after a claim attempt that timed out the next operation of the run *)
(* is a capacity sample, and no claim attempt (nor the login before it)   *)
(* comes before that poll returned Ready.                                 *)
(* ---------------------------------------------------------------------- *)
C4_PollAfterLostRace ==
    \A i \in At("lost") :
        /\ i + 2 <= Len(ops) => ops[i + 2] = "sample"
        /\ \A k \in At("claim") :
             k > i => \E r \in At("ready") : i < r /\ r < k

(* ---------------------------------------------------------------------- *)
(* C5: a run whose claim control timed out N times and was clickable on   *)
(* the next attempt is Claimed after exactly N+1 cycles, N+1 claim        *)
(* attempts and exactly one click; a run that is not Claimed has clicked  *)
(* nothing.                                                               *)
(* ---------------------------------------------------------------------- *)
C5_ClaimedAfterNPlusOne ==
    /\ enrolled => /\ attempts = lostRaces + 1
                   /\ cycles = lostRaces + 1
                   /\ clicks = 1
                   /\ Cardinality(At("claim")) = lostRaces + 1
                   /\ Last(SelectSeq(ops, LAMBDA o : o \in {"claimed", "lost"}))
                        = "claimed"
    /\ ~enrolled => clicks = 0 /\ attempts = lostRaces

\* Claimed at the third attempt, after two timeouts
C5_Witness ==
    enrolled /\ lostRaces = 2 /\ attempts = 3 /\ clicks = 1


(* ---------------------------------------------------------------------- *)
(* C6: a call of the Availability Poller returns Ready at the first       *)
(* sample greater than zero and at no earlier one, and between two        *)
(* consecutive samples lie exactly one 30 s sleep and one page refresh.   *)
(* ---------------------------------------------------------------------- *)
C6_ReadyAtFirstPositive ==
    /\ \A i \in 1 .. Len(pollLog) - 1 : pollLog[i] <= 0
    /\ (pc = "p2_login" /\ pollLog # <<>>) => Last(pollLog) > 0
    /\ (pc = "poll" /\ pollLog # <<>>) => Last(pollLog) <= 0
    /\ (pollLog # <<>> /\ Last(pollLog) > 0) =>
          /\ pollSleeps = Len(pollLog) - 1
          /\ pollRefreshes = Len(pollLog) - 1
          /\ pc = "p2_login"
               => now = pollStart + (Len(pollLog) - 1) * retry_interval_sec
    /\ pc = "poll" =>
          /\ pollSleeps = Len(pollLog)
          /\ pollRefreshes = Len(pollLog)
          /\ now = pollStart + Len(pollLog) * retry_interval_sec
    /\ now <= lesson_start => exc # "CapacityExhausted"

\* Ready on the fourth sample of the sequence 0, 0, 0, 3
C6_Witness ==
    pc = "p2_login" /\ pollLog = <<0, 0, 0, 3>> /\ pollSleeps = 3 /\ pollRefreshes = 3

(* ---------------------------------------------------------------------- *)
(* C7: the poller fails with CapacityExhausted exactly when a sample      *)
(* reads no free place at a time after the session start: the failure     *)
(* implies both, and a poller that went on to sleep after a sample took   *)
(* that sample at or before the session start.                            *)
(* ---------------------------------------------------------------------- *)
C7_ExhaustedIffPastStart ==
    /\ (exc = "CapacityExhausted" \/ failure = "CapacityExhausted")
          => /\ pollLog # <<>>
             /\ Last(pollLog) <= 0
             /\ now > lesson_start
    /\ (pc = "poll" /\ pollLog # <<>>) => now - retry_interval_sec <= lesson_start

\* capacity stayed zero over several samples until the session had started
C7_Witness ==
    /\ failure = "CapacityExhausted"
    /\ Len(pollLog) >= 3
    /\ pollStart <= lesson_start

(* ---------------------------------------------------------------------- *)
(* C8: the handle a phase acquired is released on every exit path of the  *)
(* phase (between the phases and at the end of the run no handle is       *)
(* live), and the release step itself never fails.                        *)
(* ---------------------------------------------------------------------- *)
C8_ReleasedOnEveryExit ==
    /\ pc \in {"enroll", "check_wait", "wait", "end"} => live = {}
    /\ ~releaseFailed
    /\ failure # "UnboundLocalError"

(* ---------------------------------------------------------------------- *)
(* C9: a run for a filter target whose resolved session start differs     *)
(* from the requested one performs no login, no capacity sample and no    *)
(* claim attempt and ends Failed(WindowMismatch) with exit status 2; an   *)
(* earlier run with the same target ended the same way.                   *)
(* ---------------------------------------------------------------------- *)
MismatchRecord ==
    [mismatch |-> TRUE, failure |-> "WindowMismatch", exitStatus |-> 2,
     logins |-> 0, samples |-> 0, attempts |-> 0]

C9_WindowMismatchIsTerminal ==
    /\ (compared /\ pageLesson # requested) =>
          /\ pc \in {"res_finally", "end"}
          /\ logins = [p \in Phases |-> 0]
          /\ ops = <<>>
          /\ attempts = 0
          /\ pc = "end" => RunRecord = MismatchRecord /\ outcome = "Failed"
    /\ \A i \in 1 .. Len(runLog) : runLog[i] = MismatchRecord

\* the second run with the same target ended as the first one did
C9_Witness ==
    /\ Len(runLog) = 1
    /\ pc = "end"
    /\ RunRecord = runLog[1]
    /\ live = {}

(* ---------------------------------------------------------------------- *)
(* C10 (as stated): the status is Success exactly when the alert holds    *)
(* the success phrase; whenever the alert is present without the phrase   *)
(* the status is Uncertain, a warning, and the run does not end Failed.   *)
(* ---------------------------------------------------------------------- *)
C10_UncertainRunCompletes ==
    /\ status = "Success" <=> alert = "phrase"
    /\ alert = "other" => /\ status = "Uncertain"
                          /\ warnings >= 1
                          /\ outcome # "Failed"
                          /\ exc = "none"

(* C10 (amended): the status is Success exactly when the alert holds the  *)
(* success phrase and Uncertain, with a warning, for every other alert;   *)
(* the run then completes provided the participation element is on the    *)
(* page too, and fails (NoSuchElementException) when that element is      *)
(* missing, whatever the status.                                          *)
C10_StatusFromAlert ==
    /\ status = "Success" <=> alert = "phrase"
    /\ status = "Uncertain" <=> alert = "other"
    /\ alert = "other" => warnings >= 1
    /\ (alert # "none" /\ span \in {"number", "other"})
          => exc = "none" /\ outcome # "Failed"
    /\ (alert # "none" /\ span = "absent")
          => \/ exc = "UnexpectedPageStructure"
             \/ failure = "UnexpectedPageStructure"

\* an alert without the phrase, and the run completed
C10_Witness ==
    alert = "other" /\ span = "number" /\ status = "Uncertain" /\ outcome = "Done"

----------------------------------------------------------------------------
\* the phrase "Du hast die Platz-Nr." and a number follow each other on the
\* first line of the participation text
PhraseOnFirstLine(t) ==
    \E i \in 1 .. Len(t) :
        /\ i + 4 <= Len(t)
        /\ SubSeq(t, i, i + 3) = <<"Du", "hast", "die", "Platz-Nr.">>
        /\ t[i + 4] \in Digits
        /\ \A k \in 1 .. (i - 1) : t[k] # NewLine

\* the text holds the label "Platz-Nr." followed by a number, anywhere
HasPlaceToken(t) ==
    \E i \in 1 .. (Len(t) - 1) : t[i] = "Platz-Nr." /\ t[i + 1] \in Digits

\* C11 as stated: once the verifier has read the participation text, it has a
\* number exactly when the text holds a token "Platz-Nr. <digits>".
C11_NumberIffPlaceToken ==
    span \in {"number", "other"} =>
        (enrollment_number # "none" <=> HasPlaceToken(participation_text))

\* C11, amended: once the verifier has read the participation text, it has a
\* number exactly when the first line of that text holds "Du hast die
\* Platz-Nr. <digits>", whatever the status read off the alert; the number is
\* the one in the text; a text without it costs a warning and raises nothing.
C11_NumberIffEnrollmentPhrase ==
    span \in {"number", "other"} =>
        /\ enrollment_number # "none" <=> PhraseOnFirstLine(participation_text)
        /\ enrollment_number # "none" => enrollment_number = "42"
        /\ status \in {"Success", "Uncertain"}
        /\ enrollment_number = "none" => warnings >= 1 /\ exc = "none"
        /\ pc = "end" => outcome # "Failed"

\* an alert with the success phrase and a participation text that holds the
\* number label without the phrase: Success, no number, one warning
C11_Witness ==
    /\ outcome = "Done"
    /\ status = "Success"
    /\ participation_text = <<"Platz-Nr.", "42">>
    /\ enrollment_number = "none"
    /\ warnings = 1

----------------------------------------------------------------------------
\* logins that returned, over all phases
LoginsReturned == logins["resolve"] + logins["check"] + logins["enroll"]

\* C12: a login enters exactly one flow, and the flow goes by the organisation:
\* Native for ASVZ, TwoStep for SWITCH edu-ID and Universität Zürich, Default
\* for every other; only a login that fails before the dispatch enters none.
C12_OneFlowByOrganisation ==
    /\ \A i \in 1 .. Len(flows) :
        /\ flows[i] = "Native" <=> org = "ASVZ"
        /\ flows[i] = "TwoStep" <=> org \in {"SWITCH edu-ID", "Universität Zürich"}
        /\ flows[i] = "Default" <=>
               org \notin {"ASVZ", "SWITCH edu-ID", "Universität Zürich"}
    /\ Len(flows) <= loginCalls
    /\ loginCalls - 1 <= Len(flows)
    /\ LoginsReturned <= Len(flows)
    /\ lastLogin \in {"valid", "suspect"} =>
           Len(flows) = loginCalls /\ LoginsReturned = loginCalls

\* a member of Universität Zürich is enrolled after two logins, each of which
\* went through the two-step flow
C12_Witness ==
    /\ org = "Universität Zürich"
    /\ outcome = "Done"
    /\ flows = <<"TwoStep", "TwoStep">>
    /\ loginCalls = 2

----------------------------------------------------------------------------
\* the failures the specification calls fatal
FatalCategories ==
    {"ParseError", "WindowMismatch", "AuthenticationFailure",
     "UnexpectedPageStructure", "CapacityExhausted"}

\* C13 as stated: a run that ends with a fatal failure leaves a non-zero exit
\* status that no other fatal category leaves.
C13_StatusPerCategory ==
    failure \in FatalCategories =>
        /\ exitStatus # 0
        /\ \A c \in FatalCategories \ {failure} : ExitStatusOf(c) # exitStatus

\* C13, amended: a run that ends with a fatal failure leaves a non-zero exit
\* status: 2 after a window mismatch and 1 after every other category.
C13_NonZeroStatus ==
    failure \in FatalCategories =>
        /\ outcome = "Failed"
        /\ pc = "end"
        /\ failure = "WindowMismatch" => exitStatus = 2
        /\ failure # "WindowMismatch" => exitStatus = 1

\* the session began while the poller waited: the run ends with status 1, the
\* status a missing password field leaves too
C13_Witness ==
    /\ failure = "CapacityExhausted"
    /\ exitStatus = 1
    /\ exitStatus = ExitStatusOf("AuthenticationFailure")

----------------------------------------------------------------------------
\* how often step a occurs in the steps q of a login
Count(q, a) == Cardinality({i \in 1 .. Len(q) : q[i] = a})

\* the password field was missing in the two-step flow
PasswordFieldMissing ==
    exc = "AuthenticationFailure" \/ failure = "AuthenticationFailure"

\* C14: when the password field is absent in the two-step flow, after the
\* username was submitted and continue was clicked once, the login ends in
\* AuthenticationFailure and the run terminates with status 1: the password is
\* typed nowhere, continue is not clicked a second time, and no sample, login
\* or claim attempt follows.
C14_NoPasswordNoSecondClick ==
    /\ [](PasswordFieldMissing =>
            /\ org \in {"SWITCH edu-ID", "Universität Zürich"}
            /\ lastLogin = "failed"
            /\ Count(loginSteps, "password") = 0
            /\ Count(loginSteps, "username") = 1
            /\ Count(loginSteps, "click_continue") = 1
            /\ loginSteps[Len(loginSteps)] = "click_continue"
            /\ pc \in {"p1_finally", "p2_finally", "end"}
            /\ pc = "end" => outcome = "Failed" /\ exitStatus = 1
            /\ ops # <<>> => ops[Len(ops)] \in {"cycle", "ready"})
    /\ [][PasswordFieldMissing =>
            /\ UNCHANGED <<ops, attempts, clicks, logins, loginCalls, loginSteps>>
            /\ UNCHANGED <<pollLog, waitCalls, status>>
            /\ pc' = "end"]_vars

\* the password field is missing at the login of a retry cycle, after a lost
\* race: the run has ended and its browser is closed
C14_Witness ==
    /\ failure = "AuthenticationFailure"
    /\ phase = "enroll"
    /\ lostRaces = 1
    /\ loginCalls = 3
    /\ live = {}

----------------------------------------------------------------------------
\* C15: a login after which the browser is not under the lesson pages is not a
\* failure: it counts as a returned login, nothing is raised, and the run goes
\* on with the step that follows a login under the prefix (the window
\* computation in the credential check, the claim attempt in the enrollment
\* phase), after the same delay.
C15_SuspectLoginContinues ==
    [][(loginCalls' # loginCalls /\ lastLogin' = "suspect") =>
          /\ exc' = "none"
          /\ outcome' = "running"
          /\ LoginsReturned' = LoginsReturned + 1
          /\ now' = now + 3
          /\ \/ pc = "p1_login" /\ pc' = "p1_window"
             \/ pc = "p2_login" /\ pc' = "claim" /\ ops' = Append(ops, "login")]_vars

\* the login of the enrollment phase ended off the lesson pages and the run
\* went on to claim the place and to read its number
C15_Witness ==
    /\ lastLogin = "suspect"
    /\ outcome = "Done"
    /\ status = "Success"
    /\ enrollment_number = "42"

----------------------------------------------------------------------------
\* the run is past the credential check and works with the window it computed
WindowInUse ==
    pc \in {"check_wait", "wait", "p2_get", "loop", "poll", "p2_login", "claim",
            "verify"}

\* C16: every window a run goes on to use opens no later than its session
\* starts, whatever interval texts the portal showed.
C16_WindowOrdered ==
    WindowInUse => enrollment_start <= lesson_start

----------------------------------------------------------------------------
\* the text starts with a weekday, a comma and a timestamp, and a dash follows
WellFormed(t) ==
    /\ Len(t) >= 4
    /\ t[1] = Weekday
    /\ t[2] = Comma
    /\ t[3].k = "timestamp"
    /\ t[4] = Dash

\* C17: once the window computation has read the interval texts, it has
\* failed with ParseError whenever one of the texts it read does not start
\* with weekday, comma, timestamp, dash, and then no wait, sample or claim
\* attempt was made; otherwise it raised nothing and the window of the
\* credential check is made of the first timestamps of the two texts.
C17_ParseErrorOrFirstTimestamps ==
    (pc \in {"res_finally", "p1_finally"} /\ enrollment_interval_raw # <<>>) =>
        LET te == enrollment_interval_raw
            tl == lesson_interval_raw
        IN  IF ~WellFormed(te) \/ (tl # <<>> /\ ~WellFormed(tl))
            THEN /\ exc = "ParseError"
                 /\ waitCalls = 0 /\ attempts = 0 /\ ops = <<>>
            ELSE /\ tl # <<>>
                 /\ exc \in {"none", "WindowMismatch"}
                 /\ pc = "p1_finally" =>
                        enrollment_start = te[3].v /\ lesson_start = tl[3].v

----------------------------------------------------------------------------
\* C18: the emitted log is made of the summary, whose password field is a mask
\* of "*" as long as the password, and of the login records, which name the
\* organisation only; the record of the parsed arguments is not emitted. So
\* two runs that differ only in the password log the same, up to the length of
\* the mask, and no record holds the password.
C18_LogShowsMaskOnly ==
    \A i \in 1 .. Len(log) :
        /\ log[i].msg # "Parsed args"
        /\ \/ /\ log[i].msg = "Summary"
              /\ log[i].args = <<org, "user", [k \in 1 .. Len(password) |-> "*"]>>
           \/ /\ log[i].msg = "Login to"
              /\ log[i].args = <<org>>

\* a run with the three-character password has logged its summary and two
\* logins and is enrolled
C18_Witness ==
    /\ password = <<"e", "f", "g">>
    /\ outcome = "Done"
    /\ Len(log) = 3
    /\ log[1].args[3] = <<"*", "*", "*">>

----------------------------------------------------------------------------
\* the current cycle is at, or past, the start of its claim attempt
ClaimInCycle == pc \in {"claim", "verify"}

\* C19 as stated: no claim attempt starts in a cycle in which the poller has
\* not sampled a capacity greater than zero.
C19_SampleBeforeEveryClaim ==
    ClaimInCycle => pollLog # <<>> /\ pollLog[Len(pollLog)] > 0

\* C19, amended: in a cycle that begins after the enrollment opened, no claim
\* attempt (and no login) starts unless the poller has sampled a capacity
\* greater than zero in that cycle; a cycle that begins at or before the
\* opening takes no sample and goes to its login and claim attempt directly.
C19_SampleBeforeClaimOnceOpen ==
    /\ (pc = "p2_login" \/ ClaimInCycle) =>
          /\ enrollment_start < pollStart =>
                 pollLog # <<>> /\ pollLog[Len(pollLog)] > 0
          /\ enrollment_start >= pollStart => pollLog = <<>>
    /\ \A i \in 1 .. Len(ops) :
          ops[i] = "claim" =>
              /\ i >= 3
              /\ ops[i - 1] = "login"
              /\ ops[i - 2] \in {"ready", "cycle"}

\* the first cycle began before the opening and claimed without a sample; it
\* lost the race, and the second cycle sampled 0 and then 3 before its claim
C19_Witness ==
    /\ pc = "claim"
    /\ ops = <<"cycle", "login", "claim", "lost",
               "cycle", "sample", "sample", "ready", "login">>
    /\ pollLog = <<0, 3>>
    /\ enrollment_start < pollStart

----------------------------------------------------------------------------
\* C20: the claim control is clicked at most once in a run. After the click
\* the run only reads the confirmation and closes the browser: whatever the
\* confirmation shows, no sample, login or claim attempt follows, no further
\* cycle begins, and the outcome of the run, once set, does not change.
C20_OneClickThenEnd ==
    /\ [](/\ clicks <= 1
          /\ clicks = 1 =>
                /\ enrolled
                /\ pc \in {"verify", "p2_finally", "end"}
                /\ Count(ops, "claimed") = 1
                /\ \/ ops[Len(ops)] = "claimed"
                   \/ ops[Len(ops)] = "verify" /\ ops[Len(ops) - 1] = "claimed"
                /\ outcome = "running" => ENABLED (Verify \/ EnrollFinally \/ Finish))
    /\ [][clicks = 1 =>
            /\ UNCHANGED <<clicks, attempts, lostRaces, cycles, logins, loginCalls>>
            /\ UNCHANGED <<pollLog, waitCalls>>
            /\ outcome # "running" => UNCHANGED <<outcome, failure, exitStatus>>]_vars

\* the control was clicked and the confirmation element is missing: the run
\* has failed after one click and one attempt
C20_Witness ==
    /\ clicks = 1
    /\ attempts = 1
    /\ alert = "none"
    /\ outcome = "Failed"
    /\ failure = "UnexpectedPageStructure"
    /\ ops[Len(ops)] = "verify"

(* ---------------- termination of the retry loop ---------------------- *)
\* C21: once the session has started the retry loop is left after finitely many
\* further cycles, whatever the capacity indicator and the claim control do.
\* In safety form, for the bound MaxCycles: a run whose every cycle began after
\* the session start is not back at the top of the loop after MaxCycles cycles
\* that each sampled a free place and then lost the claim.
C21_LoopBoundedBySessionStart ==
    ~ ( /\ pc = "loop"
        /\ ~enrolled
        /\ lesson_start < 0
        /\ cycles = MaxCycles
        /\ lostRaces = MaxCycles
        /\ IF pollLog = <<>> THEN FALSE ELSE HasFreePlaces(Last(pollLog)) )

(* ------------------------ session handles ----------------------------- *)
\* the steps that call into the browser session named by `driver`
HandleInUse ==
    pc \in {"res_find", "res_time", "p1_login", "p1_window", "loop", "poll",
            "p2_login", "claim", "verify"}

\* the `finally` clauses, which quit the session named by `driver`
ReleaseDue ==
    /\ pc \in {"res_finally", "p1_finally", "p2_finally"}
    /\ driver # NoHandle
    /\ driver # Unbound

\* C22: at most one handle is live at any point of a run, a phase works on a
\* handle that is live, and no phase calls into a handle that an earlier phase
\* has released.
C22_OneLiveHandleNoReuse ==
    /\ Cardinality(live) <= 1
    /\ HandleInUse => driver \in live
    /\ ReleaseDue => driver \in live

(* ----------------------- logins of the two phases --------------------- *)
\* positions of the operation a in the operations of the enrollment phase
OpsAt(a) == {i \in 1 .. Len(ops) : ops[i] = a}

\* C23: a run that reaches a claim attempt has logged in once in the credential
\* check, before any suspension, and again in the session of the enrollment
\* phase, after the suspension and before its first claim attempt; a claim
\* attempt starts only in a live session straight after a login in it.
C23_LoginInBothPhases ==
    /\ pc = "wait" => logins["check"] = 1 /\ logins["enroll"] = 0 /\ ops = <<>>
    /\ (pc = "claim" \/ attempts >= 1) =>
          /\ logins["check"] = 1
          /\ logins["enroll"] >= 1
          /\ OpsAt("login") # {}
          /\ \A c \in OpsAt("claim") : \E l \in OpsAt("login") : l < c
    /\ pc = "claim" =>
          /\ Last(ops) = "login"
          /\ live = {driver}
          /\ driver = acquired

\* a claim attempt is due in a run that was suspended before its enrollment
\* phase
C23_Witness ==
    /\ pc = "claim"
    /\ waitCalls = 1
    /\ sleep_time > 0
    /\ logins["check"] = 1
    /\ logins["enroll"] = 1
    /\ attempts = 0

(* ----------------------- required page elements ----------------------- *)
\* the page that was read shows neither label of the enrollment interval
EnrollmentLabelsAbsent ==
    EnrollmentLabel \notin labels /\ EnrollmentFallbackLabel \notin labels

\* the page that was read shows neither label of the session interval
LessonLabelsAbsent ==
    LessonLabel \notin labels /\ LessonFallbackLabel \notin labels

\* C24: once the credential check has read the lesson page, it has failed with
\* UnexpectedPageStructure if an interval it looked up is under neither of its
\* labels, and it has found both intervals if each is under its primary or its
\* fallback label; a run that failed for a missing element (an interval, the
\* capacity indicator, a login field, the confirmation element) only releases
\* its session and ends as Failed.
C24_RequiredAbsentFailsFallbackServes ==
    /\ (pc = "p1_finally" /\ labels # {}) =>
          /\ EnrollmentLabelsAbsent => exc = "UnexpectedPageStructure"
          /\ (LessonLabelsAbsent /\ StartTime(enrollment_interval_raw).err = "none")
                => exc = "UnexpectedPageStructure"
          /\ (~EnrollmentLabelsAbsent /\ ~LessonLabelsAbsent) =>
                /\ exc # "UnexpectedPageStructure"
                /\ StartTime(enrollment_interval_raw).err = "none"
                      => lesson_interval_raw # <<>>
    /\ exc = "UnexpectedPageStructure" => pc \in {"p1_finally", "p2_finally"}
    /\ failure = "UnexpectedPageStructure" => pc = "end" /\ outcome = "Failed"

(* ------------------------ login in every cycle ------------------------ *)
\* the steps of the enrollment loop, which work on the session of the phase
InLoop == pc \in {"loop", "poll", "p2_login", "claim", "verify"}

\* C25: in the enrollment phase every claim attempt follows a login of its own
\* cycle that ran all its steps in the one session of the phase, so the logins
\* of the phase and the claim attempts started are equal in number; a login
\* that fails in a cycle ends the run as Failed, with no claim attempt after it.
C25_LoginInEveryCycle ==
    /\ InLoop => live = {driver} /\ driver = acquired
    /\ pc = "claim" =>
          /\ logins["enroll"] = attempts + 1
          /\ cycles = attempts + 1
          /\ Last(ops) = "login"
          /\ loginSteps = [i \in 1 .. Len(LoginSteps(org)) |-> LoginSteps(org)[i].act]
    /\ (phase = "enroll" /\ pc # "claim") => logins["enroll"] = attempts
    /\ (phase = "enroll" /\ lastLogin = "failed") =>
          /\ pc \in {"p2_finally", "end"}
          /\ pc = "p2_finally" => exc # "none"
          /\ pc = "end" => outcome = "Failed"
          /\ ~enrolled
          /\ ops # <<>> /\ Last(ops) # "claim" /\ Last(ops) # "login"

\* a cycle entered after a lost race has logged in again and its claim attempt
\* is due
C25_Witness ==
    /\ pc = "claim"
    /\ lostRaces = 1
    /\ cycles = 2
    /\ logins["enroll"] = 2
    /\ attempts = 1

(* -------------------- capacity before the deadline -------------------- *)
\* the time of the last sample of the current poll
SampleTime == pollStart + (Len(pollLog) - 1) * retry_interval_sec

\* C26: a poll whose last sample, taken after the session start, shows a free
\* place has returned Ready: it did not fail with CapacityExhausted, and the
\* step after it is the login of the cycle.
C26_ReadyAfterSessionStart ==
    (pollLog # <<>> /\ Last(pollLog) > 0 /\ SampleTime > lesson_start) =>
       /\ exc # "CapacityExhausted"
       /\ failure # "CapacityExhausted"
       /\ pc # "poll"
       /\ Last(ops) # "sample"
       /\ Last(ops) = "ready" =>
             \/ pc = "p2_login" /\ exc = "none"
             \/ pc \in {"p2_finally", "end"} /\ lastLogin = "failed"

\* a cycle that began after the session start sampled a free place, logged in
\* and clicked the claim control
C26_Witness ==
    /\ pc = "verify"
    /\ clicks = 1
    /\ pollLog # <<>>
    /\ Last(pollLog) > 0
    /\ pollStart > lesson_start
    /\ now > lesson_start

(* ------------------------ releases of handles ------------------------- *)
\* C27: every driver.quit() is called on a handle that is live at that moment:
\* no handle is quit a second time, also on the paths where get_driver raises.
C27_NoDoubleRelease ==
    /\ staleQuits = 0
    /\ (pc = "end" /\ exc = "none") => live = {}

(* ----------------------- suspension between phases -------------------- *)
\* C28: while wait_until is due or running no handle is live, and wait_until
\* is called at most once, only when the clock read after the credential check
\* was before the enrollment opening; a run whose clock read was at or after
\* the opening is in its enrollment phase without any call of wait_until.
C28_SuspendedOnlyBeforeOpening ==
    /\ pc = "wait" => live = {} /\ now < enrollment_start /\ waitCalls = 0
    /\ waitCalls <= 1
    /\ waitCalls = 1 =>
          /\ phase = "enroll"
          /\ waitRead - MaxElapsed < enrollment_start
    /\ pc = "p2_get" =>
          /\ live = {}
          /\ waitCalls = 0 => now >= enrollment_start /\ sleep_time = 0
          /\ waitCalls = 1 => now = waitRead + sleep_time
    /\ (phase = "enroll" /\ waitCalls = 0) => sleep_time = 0

\* the credential check has quit its session and wait_until is due
C28_Witness ==
    /\ pc = "wait"
    /\ live = {}
    /\ acquired >= 1
    /\ logins["check"] = 1
    /\ now < enrollment_start

====
